---- MODULE Spec2Model ----
(***************************************************************************)
(* Local-proposal handling of the HotStuff consensus engine                *)
(* (dan_layer/consensus/src/hotstuff/on_receive_local_proposal.rs) over    *)
(* the sqlite state store (dan_layer/state_store_sqlite/src/reader.rs).    *)
(***************************************************************************)
EXTENDS Integers, Sequences, FiniteSets, TLC

(* ------------------------------ bounds --------------------------------- *)
\* greatest height a proposal carries
MaxHeight == 3
\* irregular steps of a run: proposals accepted from outside the committee's
\* own chain, and failures of the voting step
MaxFaults == 1
MaxTxs == 2
MaxCalls == 2

(* ------------------------- program constants --------------------------- *)
FOREIGN_PROPOSAL_TIMEOUT == 1000
\* LIMIT of the recursive parent walks of the store
WalkLimit == 1000

VARIABLES
    blocks,                 \* table blocks (rows joined with their justify QC)
    quorum_certificates,    \* table quorum_certificates
    high_qc,                \* current row of high_qcs
    locked_block,           \* current row of locked_block (a block id)
    transactions,           \* table transactions (TransactionRecord)
    transaction_pool,       \* table transaction_pool
    pool_state_updates,     \* table transaction_pool_state_updates
    foreign_proposals,      \* table foreign_proposals
    foreign_send_counters,  \* table foreign_send_counters (block ids with a row)
    processed,              \* block ids whose row has is_processed set
    leaf_block,             \* table leaf_blocks: the block id of the latest row
    active_epochs,          \* the epochs the epoch manager reports as active
    budget,                 \* irregular steps still allowed
    last,                   \* the handle() call that has just returned, or Idle
    inflight,               \* the handle() calls of handlers that share the store
    substate_locks,         \* table substate_locks
    pending_state_tree_diffs \* table pending_state_tree_diffs

store == <<blocks, quorum_certificates, high_qc, locked_block, transactions,
           transaction_pool, pool_state_updates, foreign_proposals,
           foreign_send_counters, processed, leaf_block>>
vars == <<blocks, quorum_certificates, high_qc, locked_block, transactions,
          transaction_pool, pool_state_updates, foreign_proposals,
          foreign_send_counters, processed, leaf_block, active_epochs, budget, last,
          inflight, substate_locks, pending_state_tree_diffs>>
\* the tables the voting step writes for the block it speculates on
speculation == <<substate_locks, pending_state_tree_diffs>>

(* ------------------------------ values --------------------------------- *)
Heights == 0 .. MaxHeight
\* EpochManagerReader::is_epoch_active
is_epoch_active(epoch) == epoch \in active_epochs
Network == "localnet"
LocalShard == 0
\* the local committee, in leader-rotation order
LocalCommittee == <<"v1", "v2">>

\* BlockId::genesis() is the zero hash
GenesisId == <<>>
\* an id no block of the store hashes to
UnknownId == <<"unknown">>

QcId(block_id, block_height) == <<block_id, block_height>>
QuorumCertificate(block_id, block_height) ==
    [qc_id |-> QcId(block_id, block_height), block_id |-> block_id,
     block_height |-> block_height]
GenesisQc == QuorumCertificate(GenesisId, 0)

\* Block::calculate_hash: the id commits to every field of the block
calculate_hash(b) ==
    <<b.network, b.parent, b.justify.qc_id, b.height, b.epoch, b.shard,
      b.proposed_by, b.merkle_root, b.is_dummy, b.commands, b.timestamp,
      b.base_layer_block_height, b.base_layer_block_hash>>

Block(network, parent, justify, height, epoch, shard, proposed_by, merkle_root, commands, timestamp, bl_height, bl_hash, is_dummy) ==
    LET body == [id |-> GenesisId, network |-> network, parent |-> parent,
                 justify |-> justify, height |-> height, epoch |-> epoch,
                 shard |-> shard, proposed_by |-> proposed_by,
                 merkle_root |-> merkle_root, commands |-> commands,
                 timestamp |-> timestamp, base_layer_block_height |-> bl_height,
                 base_layer_block_hash |-> bl_hash, is_dummy |-> is_dummy]
    IN  [body EXCEPT !.id = calculate_hash(body)]

\* Block::dummy_block: an empty block marked is_dummy
dummy_block(network, parent, proposed_by, height, high, epoch, shard, merkle_root, timestamp, bl_height, bl_hash) ==
    Block(network, parent, high, height, epoch, shard, proposed_by, merkle_root,
          <<>>, timestamp, bl_height, bl_hash, TRUE)

\* the zero block: its own parent, justified by the genesis QC
GenesisBlock ==
    [id |-> GenesisId, network |-> Network, parent |-> GenesisId,
     justify |-> GenesisQc, height |-> 0, epoch |-> 0, shard |-> LocalShard,
     proposed_by |-> "", merkle_root |-> 0, commands |-> <<>>, timestamp |-> 0,
     base_layer_block_height |-> 0, base_layer_block_hash |-> 0,
     is_dummy |-> FALSE]

\* BlockId::is_genesis / QuorumCertificate::is_genesis
BlockIdIsGenesis(id) == id = GenesisId
QcIsGenesis(qc) == BlockIdIsGenesis(qc.block_id)

\* LeaderStrategy::get_leader_public_key: round robin over the committee
get_leader_public_key(committee, height) ==
    committee[(height % Len(committee)) + 1]

command_count(b) == Len(b.commands)
all_transaction_ids(b) == {b.commands[i] : i \in 1 .. Len(b.commands)}

(* --------------------------- store reads ------------------------------- *)
blocks_exists(id) == \E b \in blocks : b.id = id
blocks_get(id) == CHOOSE b \in blocks : b.id = id

\* rows of `tree` in get_block_ids_between: the row of `id`, then the row of
\* its parent unless the row just produced is start_block; UNION ALL keeps
\* repeated rows and LIMIT ends the walk; a row that is its own parent (the
\* genesis block) fills the rest of the limit
RECURSIVE BetweenRows(_, _, _)
BetweenRows(id, start_block, limit) ==
    IF limit = 0 \/ ~blocks_exists(id) THEN <<>>
    ELSE LET b == blocks_get(id)
         IN  IF b.id = start_block THEN <<b>>
             ELSE IF b.parent = b.id THEN [i \in 1 .. limit |-> b]
             ELSE <<b>> \o BetweenRows(b.parent, start_block, limit - 1)

\* fault: the walk stops above start_block and leaves it out
get_block_ids_between_ExcludingStart(start_block, end_block) ==
    LET rows == BetweenRows(end_block, start_block, WalkLimit)
        keep == SelectSeq(rows, LAMBDA b : b.id # start_block)
    IN  [i \in 1 .. Len(keep) |-> keep[i].id]

get_block_ids_between(start_block, end_block) ==
    LET rows == BetweenRows(end_block, start_block, WalkLimit)
    IN  [i \in 1 .. Len(rows) |-> rows[i].id]

\* fault: every state-changing block of the store applies, on the chain or not
get_block_ids_that_change_state_between_AnyFork(start_block, end_block) ==
    LET changing == {b \in blocks : ~b.is_dummy /\ command_count(b) > 0}
    IN  IF changing = {} THEN <<>>
        ELSE LET f == CHOOSE f \in [1 .. Cardinality(changing) -> changing] :
                          \A i, j \in 1 .. Cardinality(changing) : i # j => f[i] # f[j]
             IN  [i \in 1 .. Cardinality(changing) |-> f[i].id]

\* fault: the filter is part of the walk, which ends at the first block that
\* does not change state
get_block_ids_that_change_state_between_FilteredWalk(start_block, end_block) ==
    LET rows == BetweenRows(end_block, start_block, WalkLimit)
        changes(b) == ~b.is_dummy /\ command_count(b) > 0
        stop == {i \in 1 .. Len(rows) : ~changes(rows[i])}
        n == IF stop = {} THEN Len(rows)
             ELSE (CHOOSE i \in stop : \A j \in stop : i <= j) - 1
    IN  [i \in 1 .. n |-> rows[i].id]

get_block_ids_that_change_state_between(start_block, end_block) ==
    LET rows == BetweenRows(end_block, start_block, WalkLimit)
        keep == SelectSeq(rows, LAMBDA b : ~b.is_dummy /\ command_count(b) > 0)
    IN  [i \in 1 .. Len(keep) |-> keep[i].id]

\* ids of `tree` in blocks_is_ancestor: the walk stops at a self-referencing row
RECURSIVE AncestorIds(_)
AncestorIds(id) ==
    IF ~blocks_exists(id) THEN {}
    ELSE LET b == blocks_get(id)
         IN  IF b.id = b.parent THEN {b.id} ELSE {b.id} \cup AncestorIds(b.parent)

\* get_commit_block_id: the parent of the LockedBlock
get_commit_block_id == blocks_get(locked_block).parent

\* the rows of a table in ascending order of their id column
RECURSIVE OrderById(_)
OrderById(rows) ==
    IF rows = {} THEN <<>>
    ELSE LET first == CHOOSE r \in rows : \A q \in rows : r.id <= q.id
         IN  <<first>> \o OrderById(rows \ {first})

\* the orders ORDER BY block_height ASC can produce: rows of one height come
\* in any order
RECURSIVE OrderByBlockHeight(_)
OrderByBlockHeight(rows) ==
    IF rows = {} THEN {<<>>}
    ELSE UNION {{<<r>> \o s : s \in OrderByBlockHeight(rows \ {r})}
                  : r \in {q \in rows : \A p \in rows : q.block_height <= p.block_height}}

\* fault: the locks of every block of the store are returned
substate_locks_get_all_for_block_AnyFork(block_id) ==
    LET lock_recs == OrderById(substate_locks)
        keys == {lock_recs[i].substate_id : i \in 1 .. Len(lock_recs)}
    IN  [id \in keys |-> SelectSeq(lock_recs, LAMBDA l : l.substate_id = id)]

\* substate_locks_get_all_for_block: the IndexMap, as the list of locks of
\* each substate id that has one
substate_locks_get_all_for_block(block_id) ==
    LET walk == get_block_ids_that_change_state_between(GenesisId, block_id)
        block_ids == {walk[i] : i \in 1 .. Len(walk)}
        lock_recs == OrderById({l \in substate_locks : l.block_id \in block_ids})
        keys == {lock_recs[i].substate_id : i \in 1 .. Len(lock_recs)}
    IN  [id \in keys |-> SelectSeq(lock_recs, LAMBDA l : l.substate_id = id)]

\* the orders a query without ORDER BY can produce
RECURSIVE AnyOrder(_)
AnyOrder(rows) ==
    IF rows = {} THEN {<<>>}
    ELSE UNION {{<<r>> \o s : s \in AnyOrder(rows \ {r})} : r \in rows}

\* fault: the diffs are not ordered by block height
pending_state_tree_diffs_get_all_up_to_commit_block_Unordered(block_id) ==
    LET walk == get_block_ids_between(get_commit_block_id, block_id)
        block_ids == {walk[i] : i \in 1 .. Len(walk) - 1}
    IN  IF block_ids = {} THEN {<<>>}
        ELSE AnyOrder({d \in pending_state_tree_diffs : d.block_id \in block_ids})

\* pending_state_tree_diffs_get_all_up_to_commit_block: the results the query
\* can give; pop() takes the last id off the walk
pending_state_tree_diffs_get_all_up_to_commit_block(block_id) ==
    LET walk == get_block_ids_between(get_commit_block_id, block_id)
        block_ids == {walk[i] : i \in 1 .. Len(walk) - 1}
    IN  IF block_ids = {} THEN {<<>>}
        ELSE OrderByBlockHeight({d \in pending_state_tree_diffs :
                                    d.block_id \in block_ids})

\* fault: a block does not count as its own ancestor
blocks_is_ancestor_Proper(descendant, ancestor) ==
    IF ~blocks_exists(descendant) \/ ~blocks_exists(ancestor)
    THEN [err |-> TRUE, value |-> FALSE]
    ELSE [err |-> FALSE,
          value |-> ancestor # descendant /\ ancestor \in AncestorIds(descendant)]

\* blocks_is_ancestor: err (QueryError) when either block is missing
blocks_is_ancestor(descendant, ancestor) ==
    IF ~blocks_exists(descendant) \/ ~blocks_exists(ancestor)
    THEN [err |-> TRUE, value |-> FALSE]
    ELSE [err |-> FALSE, value |-> ancestor \in AncestorIds(descendant)]

\* Block::has_been_processed: the is_processed column of the stored row
\* fault: no block counts as processed
has_been_processed_Never(id) == FALSE

has_been_processed(id) == blocks_exists(id) /\ id \in processed

\* Block::is_safe: the block extends the current LockedBlock through its
\* parent chain
is_safe(candidate_block) ==
    blocks_is_ancestor(candidate_block.parent, locked_block).value

(* ----------------------------- validation ------------------------------ *)
\* Ok(ValidBlock{block, dummy_blocks}), Err(ProposalValidationError) or a panic
Valid(candidate_block, dummy_blocks) ==
    [kind |-> "Ok", error |-> "", dummy_blocks |-> dummy_blocks]
Invalid(candidate_block, error) ==
    [kind |-> "Err", error |-> error, dummy_blocks |-> <<>>]
Panicked(candidate_block) ==
    [kind |-> "Panic", error |-> "", dummy_blocks |-> <<>>]

\* the while loop of validate_local_proposed_block (lines 415-444);
\* dummy_blocks starts as <<justify_block>>
\* fault: the dummy is given the leader of the height below its own
NextDummy_StaleLeader(last_dummy_block, candidate_block, justify_block, local_committee, shard) ==
    dummy_block(Network, last_dummy_block.id,
                get_leader_public_key(local_committee, last_dummy_block.height),
                last_dummy_block.height + 1, candidate_block.justify,
                candidate_block.epoch, shard, candidate_block.merkle_root,
                justify_block.timestamp, justify_block.base_layer_block_height,
                justify_block.base_layer_block_hash)

\* the dummy block pushed by one turn of the loop (lines 425-441)
NextDummy(last_dummy_block, candidate_block, justify_block, local_committee, shard) ==
    LET next_height == last_dummy_block.height + 1
        leader == get_leader_public_key(local_committee, next_height)
    IN  dummy_block(Network, last_dummy_block.id, leader, next_height,
                    candidate_block.justify, candidate_block.epoch, shard,
                    candidate_block.merkle_root, justify_block.timestamp,
                    justify_block.base_layer_block_height,
                    justify_block.base_layer_block_hash)

RECURSIVE DummyLoop(_, _, _, _, _)
DummyLoop(dummy_blocks, candidate_block, justify_block, local_committee, shard) ==
    LET last_dummy_block == dummy_blocks[Len(dummy_blocks)]
    IN  IF last_dummy_block.id = candidate_block.parent
        THEN Valid(candidate_block, dummy_blocks)
        ELSE IF last_dummy_block.height > candidate_block.height
        THEN Invalid(candidate_block, "CandidateBlockDoesNotExtendJustify")
        ELSE DummyLoop(
                Append(dummy_blocks,
                       NextDummy(last_dummy_block, candidate_block, justify_block,
                                 local_committee, shard)),
                candidate_block, justify_block, local_committee, shard)

\* fault: the safety rule accepts every candidate
SafetyRule_Skipped(candidate_block) == Valid(candidate_block, <<>>)

\* the safety rule that ends validate_local_proposed_block (lines 455-465)
SafetyRule(candidate_block) ==
    IF ~is_safe(candidate_block)
    THEN Invalid(candidate_block, "NotSafeBlock")
    ELSE Valid(candidate_block, <<>>)

\* fault: the height the justify QC carries is not compared with the height
\* of the stored justify block
validate_local_proposed_block_AnyJustifyHeight(candidate_block, local_committee, shard) ==
    IF has_been_processed(candidate_block.id)
    THEN Invalid(candidate_block, "BlockAlreadyProcessed")
    ELSE IF ~blocks_exists(candidate_block.justify.block_id)
    THEN Invalid(candidate_block, "JustifyBlockNotFound")
    ELSE LET justify_block == blocks_get(candidate_block.justify.block_id)
         IN
    IF BlockIdIsGenesis(candidate_block.parent) /\ QcIsGenesis(candidate_block.justify)
    THEN Valid(candidate_block, <<>>)
    ELSE IF candidate_block.height < justify_block.height
    THEN Invalid(candidate_block, "CandidateBlockNotHigherThanJustify")
    ELSE IF justify_block.id # candidate_block.parent
    THEN IF candidate_block.height - justify_block.height - 1 < 0
         THEN Panicked(candidate_block)
         ELSE DummyLoop(<<justify_block>>, candidate_block, justify_block,
                        local_committee, shard)
    ELSE SafetyRule(candidate_block)

\* fault: a candidate on genesis is checked like any other
validate_local_proposed_block_NoShortCircuit(candidate_block, local_committee, shard) ==
    IF has_been_processed(candidate_block.id)
    THEN Invalid(candidate_block, "BlockAlreadyProcessed")
    ELSE IF ~blocks_exists(candidate_block.justify.block_id)
    THEN Invalid(candidate_block, "JustifyBlockNotFound")
    ELSE LET justify_block == blocks_get(candidate_block.justify.block_id)
         IN
    IF justify_block.height # candidate_block.justify.block_height
    THEN Invalid(candidate_block, "JustifyBlockInvalid")
    ELSE IF candidate_block.height < justify_block.height
    THEN Invalid(candidate_block, "CandidateBlockNotHigherThanJustify")
    ELSE IF justify_block.id # candidate_block.parent
    THEN IF candidate_block.height - justify_block.height - 1 < 0
         THEN Panicked(candidate_block)
         ELSE DummyLoop(<<justify_block>>, candidate_block, justify_block,
                        local_committee, shard)
    ELSE SafetyRule(candidate_block)

validate_local_proposed_block(candidate_block, local_committee, shard) ==
    IF has_been_processed(candidate_block.id)
    THEN Invalid(candidate_block, "BlockAlreadyProcessed")
    ELSE IF ~blocks_exists(candidate_block.justify.block_id)
    THEN Invalid(candidate_block, "JustifyBlockNotFound")
    ELSE LET justify_block == blocks_get(candidate_block.justify.block_id)
         IN
    IF justify_block.height # candidate_block.justify.block_height
    THEN Invalid(candidate_block, "JustifyBlockInvalid")
    ELSE IF BlockIdIsGenesis(candidate_block.parent) /\ QcIsGenesis(candidate_block.justify)
    THEN Valid(candidate_block, <<>>)
    ELSE IF candidate_block.height < justify_block.height
    THEN Invalid(candidate_block, "CandidateBlockNotHigherThanJustify")
    ELSE IF justify_block.id # candidate_block.parent
    THEN \* Vec::with_capacity(height - justify_height - 1) on u64: the
         \* subtraction underflows (debug) or the capacity overflows (release)
         IF candidate_block.height - justify_block.height - 1 < 0
         THEN Panicked(candidate_block)
         ELSE DummyLoop(<<justify_block>>, candidate_block, justify_block,
                        local_committee, shard)
    ELSE SafetyRule(candidate_block)

(* ------------------------- transaction pool ---------------------------- *)
transaction_pool_exists(tx_id) == \E r \in transaction_pool : r.transaction_id = tx_id
transactions_exists(tx_id) == \E t \in transactions : t.id = tx_id
transactions_get(tx_id) == CHOOSE t \in transactions : t.id = tx_id
\* transactions_get_any: the stored records among tx_ids
transactions_get_any(tx_ids) ==
    {t \in transactions : \E i \in 1 .. Len(tx_ids) : tx_ids[i] = t.id}

\* TransactionPool::insert of an atom: stage New, ready unless Deferred
PoolRecord(tx_id, decision) ==
    [transaction_id |-> tx_id, stage |-> "New", is_ready |-> decision # "Deferred",
     original_decision |-> decision, local_decision |-> "None"]

\* create_transaction_atom_updates_query: per transaction, the rows of the
\* given blocks that can get rank 1 under ORDER BY block_height DESC. The
\* query orders by nothing else, so which of several rows of the greatest
\* height gets rank 1 is left to the database
RankedFirst(tx_id, block_ids) ==
    LET rows == {u \in pool_state_updates :
                    /\ u.transaction_id = tx_id
                    /\ \E i \in 1 .. Len(block_ids) : block_ids[i] = u.block_id}
    IN  {u \in rows : \A v \in rows : v.block_height <= u.block_height}

\* TransactionPoolRecord::try_convert(Some(update)): the row overlaid with
\* the update
try_convert(rec, update) ==
    [rec EXCEPT !.stage = update.stage, !.is_ready = update.is_ready,
                !.local_decision = update.local_decision]

\* the records try_convert(updates.remove(id)) can give for a row: the row
\* itself when the map has no update for it, else the row overlaid with the
\* update the query ranked first
Converted(rec, updates) ==
    IF updates = {} THEN {rec} ELSE {try_convert(rec, u) : u \in updates}

\* the order of transaction ids
TxOrder == <<"t1", "t2", "t3", "t4", "t5">>
TxRank(tx_id) == CHOOSE i \in 1 .. Len(TxOrder) : TxOrder[i] = tx_id

\* get_transaction_atom_state_updates_between_blocks for one transaction of
\* transaction_ids: nothing when no ids are given or no block applies
get_transaction_atom_state_updates_between_blocks(from_block_id, to_block_id, tx_ids, tx_id) ==
    IF tx_ids = {} THEN {}
    ELSE RankedFirst(tx_id, get_block_ids_that_change_state_between(from_block_id, to_block_id))

\* the rows of transaction_pool ordered by transaction_id ascending
PoolRowsAscending ==
    [i \in 1 .. Cardinality(transaction_pool) |->
        CHOOSE r \in transaction_pool :
            Cardinality({s \in transaction_pool :
                            TxRank(s.transaction_id) < TxRank(r.transaction_id)}) = i - 1]

\* transaction_pool_get_for_blocks (lines 1252-1285): err (NotFound) when the
\* pool has no row, else the records the call can return
transaction_pool_get_for_blocks(from_block_id, to_block_id, tx_id) ==
    IF ~transaction_pool_exists(tx_id)
    THEN [err |-> TRUE, recs |-> {PoolRecord(tx_id, "Deferred")}]
    ELSE [err |-> FALSE,
          recs |-> Converted(CHOOSE r \in transaction_pool : r.transaction_id = tx_id,
                             get_transaction_atom_state_updates_between_blocks(
                                 from_block_id, to_block_id, {tx_id}, tx_id))]

\* the sequences the rows of ready_txs from the i-th on can be overlaid to,
\* with their updates between LockedBlock and LeafBlock (lines 1329-1351)
RECURSIVE ConvertedRows(_, _)
ConvertedRows(ready_txs, i) ==
    IF i > Len(ready_txs) THEN {<<>>}
    ELSE {<<rec>> \o rest :
            rec \in Converted(ready_txs[i],
                        get_transaction_atom_state_updates_between_blocks(
                            locked_block, leaf_block,
                            {ready_txs[j].transaction_id : j \in 1 .. Len(ready_txs)},
                            ready_txs[i].transaction_id)),
            rest \in ConvertedRows(ready_txs, i + 1)}

Take(s, n) == SubSeq(s, 1, IF n < Len(s) THEN n ELSE Len(s))

\* fault: the quota is applied before the rows that are not ready are dropped
transaction_pool_get_many_ready_TakeFirst(max_txs) ==
    {SelectSeq(Take(rows, max_txs), LAMBDA rec : rec.is_ready)
        : rows \in ConvertedRows(PoolRowsAscending, 1)}

\* transaction_pool_get_many_ready (lines 1314-1357): the results the call
\* can return
transaction_pool_get_many_ready(max_txs) ==
    {Take(SelectSeq(rows, LAMBDA rec : rec.is_ready), max_txs)
        : rows \in ConvertedRows(PoolRowsAscending, 1)}

\* TransactionPool::get(tx, leaf, id): the record as seen from LockedBlock to
\* leaf. The handler reads for a candidate it has not saved yet, so the walk
\* from the leaf is empty and the call has one outcome
pool_get(leaf_id, tx_id) ==
    [err |-> transaction_pool_get_for_blocks(locked_block, leaf_id, tx_id).err,
     rec |-> CHOOSE r \in transaction_pool_get_for_blocks(locked_block, leaf_id, tx_id).recs
                : TRUE]

(* ------------------------- foreign proposals --------------------------- *)
\* NodeHeight::saturating_sub
saturating_sub(a, b) == IF a > b THEN a - b ELSE 0

foreign_proposal_get_all_proposed(to_height) ==
    {p \in foreign_proposals : p.state = "Proposed" /\ p.proposed_height <= to_height}

\* the finalized transactions among the known transactions of a proposal
FinalizedOf(proposal) ==
    {t.id : t \in {r \in transactions_get_any(proposal.transactions) : r.is_finalized}}

\* fault: the pool stage is not looked at
UnresolvedOf_AnyStage(proposal, block) == FinalizedOf(proposal)

\* those of them whose pool record, read for the chain ending at `block`, is
\* at stage New or Prepared
UnresolvedOf(proposal, block) ==
    {t \in FinalizedOf(proposal) : pool_get(block.id, t).rec.stage \in {"New", "Prepared"}}

\* TransactionPoolRecord::update_local_decision: a state update for the block
\* the record was read for
LocalDecisionUpdate(row_id, block, rec, decision) ==
    [id |-> row_id, block_id |-> block.id, block_height |-> block.height,
     transaction_id |-> rec.transaction_id, stage |-> rec.stage,
     is_ready |-> rec.is_ready, local_decision |-> decision]

update_foreign_proposal_transactions(block) ==
    LET all_proposed == foreign_proposal_get_all_proposed(
                            saturating_sub(block.height, FOREIGN_PROPOSAL_TIMEOUT))
        failed == \E p \in all_proposed : \E t \in FinalizedOf(p) : pool_get(block.id, t).err
        aborted == UNION {UnresolvedOf(p, block) : p \in all_proposed}
        kept == {u \in pool_state_updates :
                    ~(u.block_id = block.id /\ u.transaction_id \in aborted)}
        top == IF pool_state_updates = {} THEN 0
               ELSE CHOOSE n \in {u.id : u \in pool_state_updates} :
                        \A u \in pool_state_updates : u.id <= n
        row(t) == top + TxRank(t)
        deleted == {p \in all_proposed : UnresolvedOf(p, block) = {}}
    IN  [err |-> failed,
         foreign_proposals |-> foreign_proposals \ deleted,
         pool_state_updates |->
            kept \cup {LocalDecisionUpdate(row(t), block, pool_get(block.id, t).rec, "Abort")
                        : t \in aborted}]

\* the stage that follows a stage of the pool
NextStage(stage) ==
    CASE stage = "New" -> "Prepared"
      [] stage = "Prepared" -> "LocalPrepared"
      [] stage = "LocalPrepared" -> "AllPrepared"
      [] OTHER -> "AllAccepted"

\* the stages the voting step can move the transactions of a block to: for
\* each the one after its stage on the chain the block extends, as the pool
\* reads it for the parent of the block
StageChoices(block) ==
    LET txs == {t \in all_transaction_ids(block) : transaction_pool_exists(t)}
        next(t) == {NextStage(r.stage) :
                      r \in transaction_pool_get_for_blocks(locked_block, block.parent, t).recs}
    IN  {f \in [txs -> {"Prepared", "LocalPrepared", "AllPrepared", "AllAccepted"}] :
            \A t \in txs : f[t] \in next(t)}

\* the voting step moves every transaction of the block it votes for to its
\* next stage, for that block: a transaction executed before waits for the
\* other validators (not ready), a deferred one has been executed now (ready).
\* The state update of a transaction for a block replaces the earlier one
advance_stage(block, stages) ==
    LET txs == {t \in all_transaction_ids(block) : transaction_pool_exists(t)}
        replaced == {u \in pool_state_updates :
                        u.block_id = block.id /\ u.transaction_id \in txs}
        kept == pool_state_updates \ replaced
        top == IF pool_state_updates = {} THEN 0
               ELSE CHOOSE n \in {u.id : u \in pool_state_updates} :
                        \A u \in pool_state_updates : u.id <= n
        decision(t) == IF \E u \in replaced : u.transaction_id = t
                       THEN (CHOOSE u \in replaced : u.transaction_id = t).local_decision
                       ELSE "None"
    IN  kept \cup {[id |-> top + TxRank(t), block_id |-> block.id,
                    block_height |-> block.height, transaction_id |-> t,
                    stage |-> stages[t],
                    is_ready |-> ~transactions_get(t).is_executed,
                    local_decision |-> decision(t)] : t \in txs}

(* ------------------------------ handler -------------------------------- *)
\* fault: no validation error is handed to the caller
is_sync_error_Never(error) == FALSE
\* fault: every validation error is handed to the caller
is_sync_error_Always(error) == TRUE

\* the one validation error validate_block_header hands to its caller
\* (lines 219-221); the others are logged and become Ok(None)
is_sync_error(error) == error = "JustifyBlockNotFound"

\* validate_block_header: validation, then foreign-proposal reconciliation
\* the match on the validation result (lines 207-229): a valid block goes
\* through update_foreign_proposal_transactions, whose result is fp
HeaderResult(validated, fp) ==
    IF validated.kind = "Panic"
    THEN [ret |-> "Panic", validated |-> validated, fp |-> fp]
    ELSE IF validated.kind = "Ok"
    THEN [ret |-> IF fp.err THEN "StorageError" ELSE "Some",
          validated |-> validated, fp |-> fp]
    ELSE IF is_sync_error(validated.error)
    THEN [ret |-> "Err", validated |-> validated, fp |-> fp]
    ELSE [ret |-> "None", validated |-> validated, fp |-> fp]

validate_block_header(block, local_committee, shard) ==
    HeaderResult(validate_local_proposed_block(block, local_committee, shard),
                 update_foreign_proposal_transactions(block))

\* QuorumCertificate::update_high_qc: HighQc moves only to a higher block
update_high_qc(qc) == IF high_qc.block_height < qc.block_height THEN qc ELSE high_qc

\* fault: every missing transaction is inserted as a Deferred atom
PoolInserts_AllDeferred(block) ==
    {PoolRecord(t, "Deferred")
        : t \in {x \in all_transaction_ids(block) :
                    ~transaction_pool_exists(x) /\ transactions_exists(x)}}

\* the pool rows inserted for the transactions of a valid block
PoolInserts(block) ==
    {IF transactions_get(t).is_executed
     THEN PoolRecord(t, transactions_get(t).decision)
     ELSE PoolRecord(t, "Deferred")
        : t \in {x \in all_transaction_ids(block) :
                    ~transaction_pool_exists(x) /\ transactions_exists(x)}}

\* fault: the dummy blocks are not saved
SavedBlocks_CandidateOnly(block, valid_block) == blocks \cup {block}
\* fault: of the dummy blocks only the last one is saved
SavedBlocks_LastDummyOnly(block, valid_block) ==
    blocks \cup {valid_block.dummy_blocks[i] :
                    i \in {Len(valid_block.dummy_blocks)} \ {0}}
           \cup {block}

\* ValidBlock::save_all_dummy_blocks and Block::save insert the rows that
\* are not stored yet
SavedBlocks(block, valid_block) ==
    blocks \cup {valid_block.dummy_blocks[i] : i \in 1 .. Len(valid_block.dummy_blocks)}
           \cup {block}

NoEvents == <<>>
Event(call, error, height, high_qc_height) ==
    [call |-> call, error |-> error, height |-> height, high_qc_height |-> high_qc_height]

NotValidated(block) ==
    [kind |-> "None", error |-> "", dummy_blocks |-> <<>>]

\* what one handle() call returns and leaves in the store
Unchanged(block, result, error, validated, events) ==
    [result |-> result, error |-> error, block |-> block, validated |-> validated,
     persisted |-> FALSE, events |-> events,
     blocks |-> blocks, quorum_certificates |-> quorum_certificates,
     high_qc |-> high_qc, transaction_pool |-> transaction_pool,
     pool_state_updates |-> pool_state_updates,
     foreign_proposals |-> foreign_proposals,
     foreign_send_counters |-> foreign_send_counters]

\* fault: the pacemaker is given the height of the block's justify
PostCommitCalls_JustifyHeight(block, high_qc_after) ==
    <<Event("update_view", "", block.height, block.justify.block_height),
      Event("on_ready_to_vote_on_local_block", "", block.height,
            block.justify.block_height)>>

\* the calls process_block makes once the write transaction has committed
\* (lines 175-181): the pacemaker, then the voting step
PostCommitCalls(block, high_qc_after) ==
    <<Event("update_view", "", block.height, high_qc_after.block_height),
      Event("on_ready_to_vote_on_local_block", "", block.height,
            high_qc_after.block_height)>>

\* fault: HighQc is set to the justify of every saved block
save_block_high_qc_Overwrite(block) == block.justify

\* what save_block returns (lines 196-197): the HighQc after the block's
\* justify went through update_high_qc
save_block_high_qc(block) == update_high_qc(block.justify)

\* fault: a failed write transaction keeps the rows written before the error
RolledBack_Partial(block, header) ==
    [result |-> "Err", error |-> "StorageError", block |-> block,
     validated |-> header.validated, persisted |-> FALSE, events |-> NoEvents,
     blocks |-> blocks, quorum_certificates |-> quorum_certificates,
     high_qc |-> high_qc,
     transaction_pool |-> transaction_pool \cup PoolInserts(block),
     pool_state_updates |-> header.fp.pool_state_updates,
     foreign_proposals |-> header.fp.foreign_proposals,
     foreign_send_counters |-> foreign_send_counters]

\* with_write_tx of process_block when the closure returns a storage error
\* (the ? of lines 152-164): the transaction is rolled back
RolledBack(block, header) ==
    Unchanged(block, "Err", "StorageError", header.validated, NoEvents)

\* process_block from the validated header on (lines 144-182): the pool
\* reconciliation, save_block, the pacemaker call and the handoff
WriteTransaction(block, header) ==
    LET missing == \E t \in all_transaction_ids(block) :
                       ~transaction_pool_exists(t) /\ ~transactions_exists(t)
        new_high_qc == save_block_high_qc(block)
    IN
    IF header.ret = "Panic"
    THEN Unchanged(block, "Panic", "", header.validated, NoEvents)
    ELSE IF header.ret = "Err"
    THEN Unchanged(block, "Err", header.validated.error, header.validated, NoEvents)
    ELSE IF header.ret = "None"
    THEN Unchanged(block, "Ok", "", header.validated, NoEvents)
    ELSE IF header.ret = "StorageError" \/ missing
    THEN RolledBack(block, header)
    ELSE [result |-> "Ok", error |-> "", block |-> block,
          validated |-> header.validated, persisted |-> TRUE,
          events |-> PostCommitCalls(block, new_high_qc),
          blocks |-> SavedBlocks(block, header.validated),
          quorum_certificates |-> quorum_certificates \cup {block.justify},
          high_qc |-> new_high_qc,
          transaction_pool |-> transaction_pool \cup PoolInserts(block),
          pool_state_updates |-> header.fp.pool_state_updates,
          foreign_proposals |-> header.fp.foreign_proposals,
          foreign_send_counters |-> foreign_send_counters \cup {block.id}]

\* fault: a stored block is not recognised
block_exists_Never(block) == FALSE

\* block.exists(tx) of process_block (lines 139-142)
block_exists(block) == blocks_exists(block.id)

\* the closure process_block runs in store.with_write_tx (lines 138-173)
with_write_tx(block) ==
    IF block_exists(block)
    THEN Unchanged(block, "Ok", "", NotValidated(block), NoEvents)
    ELSE WriteTransaction(block, validate_block_header(block, LocalCommittee, LocalShard))

process_block(block) ==
    IF ~is_epoch_active(block.epoch)
    THEN Unchanged(block, "Err", "EpochNotActive", NotValidated(block), NoEvents)
    ELSE with_write_tx(block)

\* fault: the hook fires on every error process_block returns
HandleResult_EveryError(block, out) ==
    IF out.result = "Err"
    THEN [out EXCEPT !.events =
             Append(out.events, Event("on_block_validation_failed", out.error,
                                      block.height, high_qc.block_height))]
    ELSE out

\* handle: the validation-failed hook fires on a ProposalValidationError
\* (lines 105-116); out is what process_block returned
HandleResult(block, out) ==
    IF out.result = "Err" /\ out.error \notin {"EpochNotActive", "StorageError"}
    THEN [out EXCEPT !.events =
             Append(out.events, Event("on_block_validation_failed", out.error,
                                      block.height, high_qc.block_height))]
    ELSE out

handle(block) == HandleResult(block, process_block(block))

\* the substate a transaction works on
SubstateOf(tx_id) == IF tx_id \in {"t1", "t2", "t5"} THEN "s1" ELSE "s2"

\* the voting step locks the substate of every command of the block it
\* speculates on, one row per command in command order; row ids increase
lock_substates(block) ==
    LET top == IF substate_locks = {} THEN 0
               ELSE CHOOSE n \in {l.id : l \in substate_locks} :
                        \A l \in substate_locks : l.id <= n
    IN  substate_locks \cup
            {[id |-> top + i, block_id |-> block.id,
              substate_id |-> SubstateOf(block.commands[i]),
              transaction_id |-> block.commands[i], lock |-> "Write"]
                : i \in 1 .. Len(block.commands)}

\* the voting step records the state-tree diff of the block it speculates on
pending_state_tree_diffs_insert(block) ==
    pending_state_tree_diffs \cup {[block_id |-> block.id, block_height |-> block.height]}

\* a pending diff lives until its block commits: the commit block, the parent
\* of the LockedBlock, and its ancestors are committed
flush_committed(diffs, locked) ==
    {d \in diffs : d.block_id \notin AncestorIds(blocks_get(locked).parent)}

(* ------------------------------ proposals ------------------------------ *)
\* what a proposer puts into a block besides its position in the chain
Contents ==
    {[epoch |-> 1, proposed_by |-> "v1", merkle_root |-> 0, timestamp |-> 0,
      base_layer_block_height |-> 0, base_layer_block_hash |-> 0, commands |-> <<>>],
     [epoch |-> 2, proposed_by |-> "v2", merkle_root |-> 1, timestamp |-> 1,
      base_layer_block_height |-> 1, base_layer_block_hash |-> 1,
      commands |-> <<"t1", "t2", "t4">>],
     [epoch |-> 2, proposed_by |-> "v2", merkle_root |-> 1, timestamp |-> 1,
      base_layer_block_height |-> 1, base_layer_block_hash |-> 1,
      commands |-> <<"t2", "t3">>]}

Proposal(parent, justify, height, c) ==
    Block(Network, parent, justify, height, c.epoch, LocalShard, c.proposed_by,
          c.merkle_root, c.commands, c.timestamp, c.base_layer_block_height,
          c.base_layer_block_hash, FALSE)

\* the QCs a proposal may carry: of a stored block, with its height or a wrong
\* one, or of a block this node does not know
JustifyChoices ==
    {QuorumCertificate(b.id, b.height) : b \in blocks}
        \cup {QuorumCertificate(high_qc.block_id, high_qc.block_height + 1),
              QuorumCertificate(UnknownId, 1)}

\* the id of the n-th dummy block a proposer derives above the justify block,
\* by the construction the validator repeats
RECURSIVE DummyIdAbove(_, _, _, _)
DummyIdAbove(last_block, justify_block, candidate, n) ==
    IF n = 0 THEN last_block.id
    ELSE DummyIdAbove(NextDummy(last_block, candidate, justify_block, LocalCommittee,
                                LocalShard),
                      justify_block, candidate, n - 1)

\* the parents a proposal may name
ParentChoices(justify, height, c) ==
    {justify.block_id, GenesisId, UnknownId}
        \cup IF blocks_exists(justify.block_id)
             THEN {DummyIdAbove(blocks_get(justify.block_id),
                                blocks_get(justify.block_id),
                                [justify |-> justify, epoch |-> c.epoch,
                                 merkle_root |-> c.merkle_root], n)
                      : n \in 1 .. (height + 2 - justify.block_height)}
             ELSE {}

(* ------------------------------- actions ------------------------------- *)
\* two handlers on one store, and a handle() call of one of them
Invocations == 1 .. 2
IdleCall ==
    [pc |-> "idle", block |-> GenesisBlock, result |-> "", error |-> "",
     persisted |-> FALSE, events |-> NoEvents, changed |-> FALSE,
     overlapped |-> FALSE, calls |-> 0]

Idle ==
    [state |-> "idle", result |-> "", error |-> "", block |-> GenesisBlock,
     validated |-> NotValidated(GenesisBlock), persisted |-> FALSE,
     events |-> NoEvents, locked_before |-> GenesisId, before |-> <<>>]

Init ==
    /\ blocks = {GenesisBlock}
    /\ quorum_certificates = {GenesisQc}
    /\ high_qc = GenesisQc
    /\ locked_block = GenesisId
    /\ transactions =
         {[id |-> "t1", is_executed |-> TRUE, is_finalized |-> TRUE, decision |-> "Commit"],
          [id |-> "t2", is_executed |-> FALSE, is_finalized |-> FALSE, decision |-> "Commit"],
          [id |-> "t4", is_executed |-> TRUE, is_finalized |-> FALSE, decision |-> "Abort"],
          [id |-> "t5", is_executed |-> TRUE, is_finalized |-> TRUE, decision |-> "Commit"]}
    /\ transaction_pool =
         {PoolRecord("t1", "Commit"),
          [PoolRecord("t5", "Commit") EXCEPT !.stage = "LocalPrepared"]}
    /\ pool_state_updates = {}
    /\ foreign_proposals =
         {[bucket |-> 1, block_id |-> <<"f1">>, transactions |-> <<"t1">>,
           base_layer_block_height |-> 0, state |-> "Proposed", proposed_height |-> 0],
          [bucket |-> 1, block_id |-> <<"f2">>, transactions |-> <<"t3">>,
           base_layer_block_height |-> 0, state |-> "Proposed", proposed_height |-> 0],
          [bucket |-> 1, block_id |-> <<"f3">>, transactions |-> <<"t5">>,
           base_layer_block_height |-> 0, state |-> "New", proposed_height |-> 0],
          [bucket |-> 1, block_id |-> <<"f4">>, transactions |-> <<"t3">>,
           base_layer_block_height |-> 0, state |-> "Proposed", proposed_height |-> 2],
          [bucket |-> 1, block_id |-> <<"f5">>, transactions |-> <<"t5", "t4">>,
           base_layer_block_height |-> 0, state |-> "Proposed", proposed_height |-> 0]}
    /\ foreign_send_counters = {}
    /\ processed = {}
    /\ leaf_block = GenesisId
    /\ active_epochs = {1, 2}
    /\ budget = MaxFaults
    /\ last = Idle
    /\ inflight = [i \in Invocations |-> IdleCall]
    /\ substate_locks = {}
    /\ pending_state_tree_diffs = {}

\* handle(ProposalMessage{block}) up to the handoff to the voting step;
\* `cost` is what an accepted proposal takes from the budget. `last` keeps
\* what the call returned, with the LockedBlock and the store it started from
Handle(block, cost) ==
    /\ last.state = "idle"
    /\ budget >= cost
    /\ \E out \in {handle(block)} :
           /\ blocks' = out.blocks
           /\ quorum_certificates' = out.quorum_certificates
           /\ high_qc' = out.high_qc
           /\ transaction_pool' = out.transaction_pool
           /\ pool_state_updates' = out.pool_state_updates
           /\ foreign_proposals' = out.foreign_proposals
           /\ foreign_send_counters' = out.foreign_send_counters
           /\ budget' = IF out.persisted THEN budget - cost ELSE budget
           /\ last' = [state |-> IF out.persisted THEN "voting" ELSE "returned",
                       result |-> out.result, error |-> out.error, block |-> block,
                       validated |-> out.validated, persisted |-> out.persisted,
                       events |-> out.events, locked_before |-> locked_block,
                       before |-> store]
    /\ UNCHANGED <<locked_block, transactions, processed, leaf_block, active_epochs,
                   inflight, speculation>>

\* the proposals of the committee's own chain: three blocks, each justified by
\* its parent, and a sibling of the first
ContentA == CHOOSE c \in Contents : c.commands = <<>>
ContentB == CHOOSE c \in Contents : c.commands = <<"t1", "t2", "t4">>
ChainA1 == Proposal(GenesisId, GenesisQc, 1, ContentA)
ChainB1 == Proposal(GenesisId, GenesisQc, 1, ContentB)
ChainA2 == Proposal(ChainA1.id, QuorumCertificate(ChainA1.id, 1), 2, ContentB)
ChainA3 == Proposal(ChainA2.id, QuorumCertificate(ChainA2.id, 2), 3, ContentA)
Chain == <<ChainA1, ChainB1, ChainA2, ChainA3>>

\* the chain another leader builds on the proposal of height 1 with commands
ChainB2 == Proposal(ChainB1.id, QuorumCertificate(ChainB1.id, 1), 2, ContentB)
ChainB3 == Proposal(ChainB2.id, QuorumCertificate(ChainB2.id, 2), 3, ContentA)
ForkChain == <<ChainB1, ChainB2, ChainB3>>

\* a proposal of that chain arrives: the next one, or again one that arrived
\* before
ReceiveForkProposal ==
    \E i \in 1 .. Len(ForkChain) :
        /\ \A j \in 1 .. (i - 1) : blocks_exists(ForkChain[j].id)
        /\ Handle(ForkChain[i], 0)

\* a proposal of the chain arrives: the next one, or again one that arrived
\* before
ReceiveChainProposal ==
    \E i \in 1 .. Len(Chain) :
        /\ \A j \in 1 .. (i - 1) : blocks_exists(Chain[j].id)
        /\ Handle(Chain[i], 0)

\* any other proposal arrives
ReceiveProposal ==
    \E c \in Contents, height \in Heights, justify \in JustifyChoices :
        \E parent \in ParentChoices(justify, height, c) :
            Handle(Proposal(parent, justify, height, c), 1)

\* the voting step handle() awaits with the valid block (line 180): it marks
\* the block processed, makes it the LeafBlock, advances the stage of its
\* transactions and locks the block two justify links below it when that
\* block is higher, or fails and leaves the store as it is
OnReadyToVoteOnLocalBlock ==
    /\ last.state = "voting"
    /\ \E ok \in BOOLEAN, stages \in StageChoices(last.block) :
        LET precommit == blocks_get(last.block.justify.block_id)
            to_lock == blocks_get(precommit.justify.block_id)
        IN  /\ ok \/ budget > 0
            /\ processed' = IF ok THEN processed \cup {last.block.id} ELSE processed
            /\ leaf_block' = IF ok THEN last.block.id ELSE leaf_block
            /\ pool_state_updates' = IF ok THEN advance_stage(last.block, stages)
                                      ELSE pool_state_updates
            /\ locked_block' = IF ok /\ to_lock.height > blocks_get(locked_block).height
                                THEN to_lock.id ELSE locked_block
            /\ substate_locks' = IF ok THEN lock_substates(last.block) ELSE substate_locks
            /\ pending_state_tree_diffs' =
                  IF ok
                  THEN flush_committed(pending_state_tree_diffs_insert(last.block),
                                       IF to_lock.height > blocks_get(locked_block).height
                                       THEN to_lock.id ELSE locked_block)
                  ELSE pending_state_tree_diffs
            /\ last' = [last EXCEPT !.state = "returned",
                                    !.result = IF ok THEN "Ok" ELSE "Err",
                                    !.error = IF ok THEN "" ELSE "VoteStepFailed"]
            /\ budget' = IF ok THEN budget ELSE budget - 1
    /\ UNCHANGED <<blocks, quorum_certificates, high_qc, transactions, transaction_pool,
                   foreign_proposals, foreign_send_counters,
                   active_epochs, inflight>>

\* the epoch manager moves on: epoch 1 is no longer active
EpochChange ==
    /\ last.state = "idle"
    /\ active_epochs = {1, 2}
    /\ active_epochs' = {2}
    /\ UNCHANGED <<store, budget, last, inflight, speculation>>

\* the caller takes the result of handle()
Return ==
    /\ last.state = "returned"
    /\ last' = Idle
    /\ UNCHANGED <<store, active_epochs, budget, inflight, speculation>>

Next ==
    \/ ReceiveChainProposal
    \/ ReceiveProposal
    \/ OnReadyToVoteOnLocalBlock
    \/ EpochChange
    \/ Return

Spec == Init /\ [][Next]_vars

\* a proposal arrives whose leader proposed above skipped heights: its parent
\* is the last dummy block above its justify block
ReceiveSkippingProposal ==
    \E c \in Contents, b \in blocks, height \in Heights :
        /\ height > b.height + 1
        /\ Handle(Proposal(DummyIdAbove(b, b, [justify |-> QuorumCertificate(b.id, b.height),
                                               epoch |-> c.epoch,
                                               merkle_root |-> c.merkle_root],
                                        height - b.height - 1),
                           QuorumCertificate(b.id, b.height), height, c), 1)

\* the stores the proposals of the chain build, for the reads of the store
NextChain ==
    \/ ReceiveChainProposal
    \/ ReceiveSkippingProposal
    \/ OnReadyToVoteOnLocalBlock
    \/ EpochChange
    \/ Return

SpecChain == Init /\ [][NextChain]_vars

\* a finalized transaction leaves the transaction pool
TransactionFinalized ==
    /\ last.state = "idle"
    /\ \E r \in transaction_pool :
          /\ transactions_get(r.transaction_id).is_finalized
          /\ transaction_pool' = transaction_pool \ {r}
    /\ UNCHANGED <<blocks, quorum_certificates, high_qc, locked_block, transactions,
                   pool_state_updates, foreign_proposals, foreign_send_counters,
                   processed, leaf_block, active_epochs, budget, last, inflight,
                   speculation>>

\* the proposals of two chains that fork at genesis
NextFork ==
    \/ ReceiveChainProposal
    \/ ReceiveForkProposal
    \/ TransactionFinalized
    \/ OnReadyToVoteOnLocalBlock
    \/ EpochChange
    \/ Return

SpecFork == Init /\ [][NextFork]_vars

(* --------------------- interleaved handle() calls ---------------------- *)
\* handle() is entered with a block of the chain: process_block asks the
\* epoch manager (lines 122-136, the awaits of the call) and returns
\* EpochNotActive or goes on to the write transaction. The call overlaps a
\* call of the other handler that waits for its write transaction with the
\* same block
Begin(i) ==
    /\ inflight[i].pc = "idle"
    /\ inflight[i].calls < MaxCalls
    /\ \E k \in 1 .. Len(Chain) :
        LET block == Chain[k]
            other == 3 - i
            overlap == /\ inflight[other].pc = "await_tx"
                       /\ inflight[other].block.id = block.id
                       /\ is_epoch_active(block.epoch)
        IN  inflight' =
              [inflight EXCEPT
                 ![i] = IF is_epoch_active(block.epoch)
                        THEN [IdleCall EXCEPT !.pc = "await_tx", !.block = block,
                                              !.overlapped = overlap,
                                              !.calls = inflight[i].calls]
                        ELSE [IdleCall EXCEPT !.pc = "returned", !.block = block,
                                              !.result = "Err",
                                              !.error = "EpochNotActive",
                                              !.calls = inflight[i].calls],
                 ![other] = IF overlap
                            THEN [inflight[other] EXCEPT !.overlapped = TRUE]
                            ELSE inflight[other]]
    /\ UNCHANGED <<store, active_epochs, budget, last, speculation>>

\* the write transaction of the call, exclusive on the store (lines 138-173),
\* and what handle() makes of its result (lines 111-118)
WriteTx(i) ==
    /\ inflight[i].pc = "await_tx"
    /\ \E out \in {HandleResult(inflight[i].block, with_write_tx(inflight[i].block))} :
           /\ blocks' = out.blocks
           /\ quorum_certificates' = out.quorum_certificates
           /\ high_qc' = out.high_qc
           /\ transaction_pool' = out.transaction_pool
           /\ pool_state_updates' = out.pool_state_updates
           /\ foreign_proposals' = out.foreign_proposals
           /\ foreign_send_counters' = out.foreign_send_counters
           /\ inflight' =
                [inflight EXCEPT
                   ![i] = [@ EXCEPT !.pc = IF out.persisted THEN "post_commit"
                                           ELSE "returned",
                                    !.result = out.result, !.error = out.error,
                                    !.persisted = out.persisted,
                                    !.events = out.events,
                                    !.changed =
                                       <<out.blocks, out.quorum_certificates, out.high_qc,
                                         out.transaction_pool, out.pool_state_updates,
                                         out.foreign_proposals, out.foreign_send_counters>>
                                       # <<blocks, quorum_certificates, high_qc,
                                           transaction_pool, pool_state_updates,
                                           foreign_proposals, foreign_send_counters>>]]
    /\ UNCHANGED <<locked_block, transactions, processed, leaf_block, active_epochs,
                   budget, last, speculation>>

\* the pacemaker update and the voting step the call awaits after the commit
\* (lines 175-181)
PostCommit(i) ==
    /\ inflight[i].pc = "post_commit"
    /\ processed' = processed \cup {inflight[i].block.id}
    /\ inflight' = [inflight EXCEPT ![i] = [@ EXCEPT !.pc = "returned"]]
    /\ UNCHANGED <<blocks, quorum_certificates, high_qc, locked_block, transactions,
                   transaction_pool, pool_state_updates, foreign_proposals,
                   foreign_send_counters, leaf_block, active_epochs, budget, last,
                   speculation>>

\* the caller takes the result of the call
Finish(i) ==
    /\ inflight[i].pc = "returned"
    /\ inflight' = [inflight EXCEPT ![i] = [IdleCall EXCEPT !.calls = inflight[i].calls + 1]]
    /\ UNCHANGED <<store, active_epochs, budget, last, speculation>>

NextInterleaved ==
    \/ \E i \in Invocations : Begin(i)
    \/ \E i \in Invocations : WriteTx(i)
    \/ \E i \in Invocations : PostCommit(i)
    \/ \E i \in Invocations : Finish(i)
    \/ EpochChange

SpecInterleaved == Init /\ [][NextInterleaved]_vars

(* ------------------------------ properties ----------------------------- *)
\* a handle() call has returned and `last` describes it
Returned == last.state # "idle"
\* validate_local_proposed_block returned Ok(ValidBlock)
Accepted == Returned /\ last.validated.kind = "Ok"
\* validate_local_proposed_block returned a ProposalValidationError
Rejected == Returned /\ last.validated.kind = "Err"
\* no dummy blocks are needed: the justify block is the candidate's parent
NoDummiesNeeded == last.block.justify.block_id = last.block.parent
GenesisShortCircuit ==
    BlockIdIsGenesis(last.block.parent) /\ QcIsGenesis(last.block.justify)
\* the dummies the validator synthesised: the list without the justify block
\* it starts from
SynthesisedDummies ==
    IF last.validated.dummy_blocks = <<>> THEN <<>> ELSE Tail(last.validated.dummy_blocks)
\* the ids on the candidate's parent chain: the synthesised dummies, then the
\* stored chain below the justify block
ParentChainIds ==
    {SynthesisedDummies[i].id : i \in 1 .. Len(SynthesisedDummies)}
        \cup AncestorIds(last.block.justify.block_id)
\* the candidate extends the LockedBlock that was current when handle() ran
ExtendsLockedBlock == last.locked_before \in ParentChainIds
StoreUnchanged == store = last.before
BlocksBefore == last.before[1]
CalledPacemakerOrVote ==
    \E i \in 1 .. Len(last.events) :
        last.events[i].call \in {"update_view", "on_ready_to_vote_on_local_block"}
HookInvoked ==
    \E i \in 1 .. Len(last.events) : last.events[i].call = "on_block_validation_failed"
EarlierRuleErrors ==
    {"BlockAlreadyProcessed", "JustifyBlockNotFound", "JustifyBlockInvalid",
     "CandidateBlockNotHigherThanJustify"}

\* C1 (as amended): when no dummy blocks are needed and the genesis
\* short-circuit does not apply, a candidate that reaches the safety rule is
\* accepted only if it extends the LockedBlock current at the call; one that
\* does not is rejected with NotSafeBlock and is not persisted.
C1_SafetyRule ==
    (/\ Returned
     /\ last.validated.kind \in {"Ok", "Err"}
     /\ NoDummiesNeeded
     /\ ~GenesisShortCircuit
     /\ last.validated.error \notin EarlierRuleErrors)
        => IF ExtendsLockedBlock
           THEN Accepted
           ELSE /\ last.validated.error = "NotSafeBlock"
                /\ ~last.persisted
                /\ ~blocks_exists(last.block.id)
\* a candidate on a fork beside a non-genesis LockedBlock is rejected
C1_Witness ==
    /\ Returned
    /\ NoDummiesNeeded
    /\ last.validated.error = "NotSafeBlock"
    /\ last.locked_before # GenesisId
\* C1 as stated: every candidate accepted without dummies extends LockedBlock
C1_AsStated == (Accepted /\ NoDummiesNeeded) => ExtendsLockedBlock

\* C2: every candidate accepted through the dummy-block path extends the
\* LockedBlock current at acceptance.
C2_DummyPathSafe == (Accepted /\ ~NoDummiesNeeded) => ExtendsLockedBlock

\* C3 (as amended): if the candidate's epoch is active and its justify block is
\* not in the store, handle() returns JustifyBlockNotFound, the store is as it
\* was before the call, and neither the pacemaker nor the voting step is called.
C3_JustifyNotFound ==
    (/\ Returned
     /\ is_epoch_active(last.block.epoch)
     /\ \A b \in BlocksBefore : b.id # last.block.justify.block_id)
        => /\ last.result = "Err"
           /\ last.error = "JustifyBlockNotFound"
           /\ StoreUnchanged
           /\ ~CalledPacemakerOrVote
C3_Witness ==
    /\ Returned
    /\ last.error = "JustifyBlockNotFound"
    /\ last.block.justify.block_id = UnknownId
\* C3 as stated: without the condition on the epoch
C3_AsStated ==
    (/\ Returned
     /\ \A b \in BlocksBefore : b.id # last.block.justify.block_id)
        => /\ last.result = "Err"
           /\ last.error = "JustifyBlockNotFound"
           /\ StoreUnchanged
           /\ ~CalledPacemakerOrVote

\* C4: on every validation error other than JustifyBlockNotFound, handle()
\* returns success, changes no stored entity and calls neither the pacemaker
\* nor the voting step.
C4_DemotedErrors ==
    (Rejected /\ last.validated.error # "JustifyBlockNotFound")
        => /\ last.result = "Ok"
           /\ last.error = ""
           /\ StoreUnchanged
           /\ ~last.persisted
           /\ ~CalledPacemakerOrVote
C4_Witness ==
    /\ Rejected
    /\ last.validated.error = "CandidateBlockDoesNotExtendJustify"
    /\ last.result = "Ok"

\* C5: whenever validation produces a ProposalValidationError, the hook
\* on_block_validation_failed is invoked for the proposal.
C5_HookOnEveryError == Rejected => HookInvoked

\* C6 (as amended): handling a proposal for a block that is already persisted,
\* while the block's epoch is active, returns success, leaves the store as it
\* was and calls neither the pacemaker nor the voting step.
C6_Duplicate ==
    (/\ Returned
     /\ is_epoch_active(last.block.epoch)
     /\ \E b \in BlocksBefore : b.id = last.block.id)
        => /\ last.result = "Ok"
           /\ StoreUnchanged
           /\ ~last.persisted
           /\ ~CalledPacemakerOrVote
\* a stored block whose voting step had failed is delivered again
C6_Witness ==
    /\ Returned
    /\ \E b \in BlocksBefore : b.id = last.block.id
    /\ last.block.id \notin processed
    /\ last.result = "Ok"
\* C6 as stated: without the condition on the epoch
C6_AsStated ==
    (/\ Returned
     /\ \E b \in BlocksBefore : b.id = last.block.id)
        => /\ last.result = "Ok"
           /\ StoreUnchanged
           /\ ~last.persisted
           /\ ~CalledPacemakerOrVote

\* C7: every accepted block has height strictly greater than its justify QC's
\* block_height, unless its parent and its justify are both genesis.
C7_HigherThanJustify ==
    Accepted => \/ last.block.justify.block_height < last.block.height
                \/ GenesisShortCircuit

\* C8: a ValidBlock has no dummies when the justify block is the candidate's
\* parent, and otherwise candidate.height - justify.height - 1 of them.
C8_DummyCount ==
    Accepted =>
        IF NoDummiesNeeded
        THEN Len(last.validated.dummy_blocks) = 0
        ELSE Len(SynthesisedDummies)
                = last.block.height - last.block.justify.block_height - 1

\* C9: no ValidBlock carries a dummy of height greater than candidate.height.
C9_NoDummyAboveCandidate ==
    Accepted => \A i \in 1 .. Len(SynthesisedDummies) :
                    SynthesisedDummies[i].height <= last.block.height

\* C10: the synthesised dummies form one chain from the justify block to
\* candidate.parent: the first dummy's parent is the justify block, each later
\* dummy's parent is the dummy before it, each height is the parent's plus one,
\* proposed_by is the leader of that height, justify and epoch are the
\* candidate's, and the last dummy is candidate.parent.
C10_DummyChain ==
    (Accepted /\ ~NoDummiesNeeded) =>
        LET chain == last.validated.dummy_blocks
        IN  /\ Len(chain) >= 2
            /\ chain[1].id = last.block.justify.block_id
            /\ chain[Len(chain)].id = last.block.parent
            /\ \A i \in 2 .. Len(chain) :
                /\ chain[i].parent = chain[i - 1].id
                /\ chain[i].height = chain[i - 1].height + 1
                /\ chain[i].proposed_by
                        = get_leader_public_key(LocalCommittee, chain[i].height)
                /\ chain[i].justify = last.block.justify
                /\ chain[i].epoch = last.block.epoch
                /\ chain[i].is_dummy
                /\ chain[i].id = calculate_hash(chain[i])
\* a candidate accepted above two synthesised dummies
C10_Witness ==
    /\ Accepted
    /\ last.persisted
    /\ Len(SynthesisedDummies) >= 2

\* C11: every synthesised dummy takes its merkle_root, timestamp,
\* base_layer_block_height and base_layer_block_hash from the justify block.
C11_DummyInheritsJustify ==
    Accepted =>
        \A i \in 1 .. Len(SynthesisedDummies) :
            LET justify_block == blocks_get(last.block.justify.block_id)
                d == SynthesisedDummies[i]
            IN  /\ d.merkle_root = justify_block.merkle_root
                /\ d.timestamp = justify_block.timestamp
                /\ d.base_layer_block_height = justify_block.base_layer_block_height
                /\ d.base_layer_block_hash = justify_block.base_layer_block_hash

\* C12: over every step the block_height of HighQc never decreases, and an
\* accepted block whose justify height does not exceed the current HighQc
\* height leaves HighQc as it is.
C12_HighQcMonotone ==
    [][/\ high_qc'.block_height >= high_qc.block_height
       /\ (/\ last.state = "idle"
           /\ last'.persisted
           /\ last'.block.justify.block_height <= high_qc.block_height)
            => high_qc' = high_qc]_vars
\* a block justified below the current HighQc has been persisted
C12_Witness ==
    /\ Returned
    /\ last.persisted
    /\ last.block.justify.block_height < last.before[3].block_height
    /\ high_qc = last.before[3]

\* C13: update_view is called exactly when the proposal was validated and
\* persisted: once, with the block's height and the block_height of the HighQc
\* its write transaction left, with the block in the store, and before the
\* handoff to the voting step; a block that is not persisted is not handed on.
C13_PacemakerOncePerAccepted ==
    Returned =>
        IF last.persisted
        THEN /\ Accepted
             /\ blocks_exists(last.block.id)
             /\ Len(last.events) = 2
             /\ last.events[1] = Event("update_view", "", last.block.height,
                                       high_qc.block_height)
             /\ last.events[2].call = "on_ready_to_vote_on_local_block"
        ELSE ~CalledPacemakerOrVote
\* a persisted block whose justify is below the HighQc the pacemaker is given
C13_Witness ==
    /\ Returned
    /\ last.persisted
    /\ last.events[1].call = "update_view"
    /\ last.events[1].high_qc_height > last.block.justify.block_height

\* C14: a handle() call either persists everything (the block, its dummy
\* blocks, its justify QC, the send counters, a pool row for every transaction
\* of the block) or leaves the whole store, HighQc included, as it was before
\* the call; a storage error inside the write transaction leaves it unchanged
C14_Atomic ==
    Returned =>
        IF last.persisted
        THEN /\ blocks_exists(last.block.id)
             /\ \A i \in 1 .. Len(last.validated.dummy_blocks) :
                    blocks_exists(last.validated.dummy_blocks[i].id)
             /\ last.block.justify \in quorum_certificates
             /\ last.block.id \in foreign_send_counters
             /\ \A t \in all_transaction_ids(last.block) : transaction_pool_exists(t)
             /\ high_qc.block_height >= last.block.justify.block_height
             /\ \A p \in last.before[8] :
                    (p.state = "Proposed" /\ p.proposed_height
                        <= saturating_sub(last.block.height, FOREIGN_PROPOSAL_TIMEOUT))
                    => \/ p \notin foreign_proposals
                       \/ \E u \in pool_state_updates :
                             /\ u.block_id = last.block.id
                             /\ u.local_decision = "Abort"
                             /\ \E i \in 1 .. Len(p.transactions) :
                                    p.transactions[i] = u.transaction_id
        ELSE StoreUnchanged /\ high_qc = last.before[3]

\* a block whose second transaction has no TransactionRecord: the pool row of
\* its first transaction and the foreign proposal updates were written before
\* the error
C14_Witness ==
    /\ Returned
    /\ last.error = "StorageError"
    /\ PoolInserts(last.block) # {}
    /\ update_foreign_proposal_transactions(last.block).foreign_proposals # foreign_proposals
    /\ StoreUnchanged

\* the transaction pool before the latest call
PoolBefore == last.before[6]
InPoolBefore(tx_id) == \E r \in PoolBefore : r.transaction_id = tx_id

\* C15: after a block is accepted every transaction of its commands has
\* exactly one pool record; one that was absent before the call is at stage
\* New, ready with the record's decision when the TransactionRecord is
\* executed and a Deferred atom that is not ready otherwise; the records that
\* existed before are unmodified, and no other record is added
C15_PoolReconciled ==
    (Returned /\ last.persisted) =>
        /\ PoolBefore \subseteq transaction_pool
        /\ \A r \in transaction_pool \ PoolBefore :
              /\ \E i \in 1 .. Len(last.block.commands) :
                    last.block.commands[i] = r.transaction_id
              /\ ~InPoolBefore(r.transaction_id)
              /\ r.stage = "New"
              /\ r.local_decision = "None"
              /\ r.is_ready = transactions_get(r.transaction_id).is_executed
              /\ r.original_decision =
                    IF transactions_get(r.transaction_id).is_executed
                    THEN transactions_get(r.transaction_id).decision
                    ELSE "Deferred"
        /\ \A i \in 1 .. Len(last.block.commands) :
              Cardinality({r \in transaction_pool :
                              r.transaction_id = last.block.commands[i]}) = 1

\* an accepted block with a transaction already in the pool, an executed one
\* and an unexecuted one that were not
C15_Witness ==
    /\ Returned
    /\ last.persisted
    /\ \E i \in 1 .. Len(last.block.commands) : InPoolBefore(last.block.commands[i])
    /\ \E r \in transaction_pool \ PoolBefore : r.is_ready
    /\ \E r \in transaction_pool \ PoolBefore : ~r.is_ready

\* the foreign proposals before the latest call, and those of them the call
\* selected (lines 239-242)
ForeignProposalsBefore == last.before[8]
SelectedBefore ==
    {p \in ForeignProposalsBefore :
        /\ p.state = "Proposed"
        /\ p.proposed_height
             <= saturating_sub(last.block.height, FOREIGN_PROPOSAL_TIMEOUT)}
\* the known, finalized transactions of a proposal whose pool row is at stage
\* New or Prepared
StillPending(p) ==
    {t \in {p.transactions[i] : i \in 1 .. Len(p.transactions)} :
        /\ transactions_exists(t)
        /\ transactions_get(t).is_finalized
        /\ \E r \in PoolBefore : r.transaction_id = t /\ r.stage \in {"New", "Prepared"}}

Reconciled(p) ==
    \/ p \notin foreign_proposals
    \/ \E u \in pool_state_updates \ last.before[7] :
          \E i \in 1 .. Len(p.transactions) : p.transactions[i] = u.transaction_id

\* C17: a call reconciles a foreign proposal only if it is in state Proposed
\* and the candidate's height is at least FOREIGN_PROPOSAL_TIMEOUT above its
\* proposed_height
C17_TimeoutElapsed ==
    (Returned /\ last.persisted) =>
        \A p \in ForeignProposalsBefore :
            Reconciled(p) =>
                /\ p.state = "Proposed"
                /\ last.block.height - p.proposed_height >= FOREIGN_PROPOSAL_TIMEOUT

\* what validate_local_proposed_block answers for candidate c in the current
\* store, against the rules in the order they are listed
RuleOrder(c, v) ==
    LET processed_before == c.id \in processed
        justify_known == blocks_exists(c.justify.block_id)
        justify_matches == blocks_get(c.justify.block_id).height = c.justify.block_height
        short_circuit == BlockIdIsGenesis(c.parent) /\ QcIsGenesis(c.justify)
        higher == c.height >= blocks_get(c.justify.block_id).height
        needs_dummies == c.justify.block_id # c.parent
    IN  IF processed_before THEN v.error = "BlockAlreadyProcessed"
        ELSE IF ~justify_known THEN v.error = "JustifyBlockNotFound"
        ELSE IF ~justify_matches THEN v.error = "JustifyBlockInvalid"
        ELSE IF short_circuit THEN v.kind = "Ok"
        ELSE IF ~higher THEN v.error = "CandidateBlockNotHigherThanJustify"
        ELSE IF needs_dummies
        THEN v.error \in {"", "CandidateBlockDoesNotExtendJustify"}
        ELSE v.error = (IF is_safe(c) THEN "" ELSE "NotSafeBlock")

\* C18: for the candidate just handled and for every stored block given as a
\* candidate, validate_local_proposed_block reports the first failing rule in
\* the order already-processed, justify exists, justify height matches,
\* genesis short-circuit, monotonic height, dummy synthesis, safety
C18_RuleOrder ==
    Returned =>
        \A c \in blocks \cup {last.block} :
            RuleOrder(c, validate_local_proposed_block(c, LocalCommittee, LocalShard))

\* a processed block that is no longer safe is reported as already processed,
\* and the candidate just rejected for its justify height was unsafe as well
C18_Witness ==
    /\ Rejected
    /\ last.validated.error = "JustifyBlockInvalid"
    /\ ~is_safe(last.block)
    /\ \E c \in blocks :
          /\ c.id \in processed
          /\ ~is_safe(c)
          /\ validate_local_proposed_block(c, LocalCommittee, LocalShard).error
                = "BlockAlreadyProcessed"

\* C19: a proposal whose epoch is not active is rejected with EpochNotActive
\* before validation and before any write: the store is as before the call,
\* the validation-failed hook is not invoked, the pacemaker is not called and
\* nothing is handed to the voting step
C19_EpochNotActive ==
    (Returned /\ ~is_epoch_active(last.block.epoch)) =>
        /\ last.result = "Err"
        /\ last.error = "EpochNotActive"
        /\ last.validated = NotValidated(last.block)
        /\ ~last.persisted
        /\ StoreUnchanged
        /\ last.events = NoEvents

\* a proposal of the inactive epoch that names an unknown justify block, and
\* one that is stored already
C19_Witness ==
    /\ Returned
    /\ last.error = "EpochNotActive"
    /\ \/ ~blocks_exists(last.block.justify.block_id)
       \/ blocks_exists(last.block.id)

\* the state-changing blocks from LeafBlock down to LockedBlock, and the
\* latest state update of a transaction on them
ChainBlockIds ==
    LET ids == get_block_ids_that_change_state_between(locked_block, leaf_block)
    IN  {ids[i] : i \in 1 .. Len(ids)}
LatestUpdates(tx_id) ==
    LET on_chain == {u \in pool_state_updates :
                        u.transaction_id = tx_id /\ u.block_id \in ChainBlockIds}
    IN  {u \in on_chain : \A v \in on_chain : v.block_height <= u.block_height}
EffectiveReady(rec) ==
    IF LatestUpdates(rec.transaction_id) = {} THEN rec.is_ready
    ELSE \A u \in LatestUpdates(rec.transaction_id) : u.is_ready
ReadyIds == {r.transaction_id : r \in {x \in transaction_pool : EffectiveReady(x)}}

\* what the claim says of one result of transaction_pool_get_many_ready
FirstReady(max_txs, result) ==
    /\ Len(result) <= max_txs
    /\ \A i \in 1 .. Len(result) :
          /\ result[i].transaction_id \in ReadyIds
          /\ result[i].is_ready
          /\ \A j \in 1 .. (i - 1) :
                TxRank(result[j].transaction_id) < TxRank(result[i].transaction_id)
          /\ \A t \in ReadyIds :
                TxRank(t) < TxRank(result[i].transaction_id)
                    => \E j \in 1 .. (i - 1) : result[j].transaction_id = t
    /\ Len(result) < max_txs
          => \A t \in ReadyIds : \E i \in 1 .. Len(result) : result[i].transaction_id = t

\* C20: transaction_pool_get_many_ready(max) returns at most max records in
\* ascending transaction id order, each ready after the overlay of its latest
\* state update between LockedBlock and LeafBlock, and they are the first max
\* such records: a record that is not ready takes nothing from the quota
C20_GetManyReady ==
    \A max_txs \in 0 .. MaxTxs :
        \A result \in transaction_pool_get_many_ready(max_txs) :
            FirstReady(max_txs, result)

\* the quota is filled although a record that is ready in its row, but not
\* after the overlay, precedes the returned ones, and a returned record is
\* ready only after the overlay
C20_Witness ==
    \E max_txs \in 1 .. MaxTxs :
        \E result \in transaction_pool_get_many_ready(max_txs) :
            /\ Len(result) = max_txs
            /\ \E r \in transaction_pool :
                  /\ r.is_ready
                  /\ ~EffectiveReady(r)
                  /\ TxRank(r.transaction_id) < TxRank(result[1].transaction_id)
            /\ \E r \in transaction_pool :
                  /\ ~r.is_ready
                  /\ \E i \in 1 .. max_txs : result[i].transaction_id = r.transaction_id

\* the state updates of a transaction attached to the state-changing blocks
\* on the parent chain from `to` down to `from`
UpdatesOnChain(from, to, tx_id) ==
    LET ids == get_block_ids_that_change_state_between(from, to)
    IN  {u \in pool_state_updates :
            u.transaction_id = tx_id /\ \E i \in 1 .. Len(ids) : ids[i] = u.block_id}
\* the one of the greatest block_height, ties broken by the greatest row id
GreatestUpdate(updates) ==
    CHOOSE u \in updates :
        \A v \in updates :
            \/ v.block_height < u.block_height
            \/ v.block_height = u.block_height /\ v.id <= u.id

\* C21: read from LockedBlock to any stored tip, the effective record of a
\* pool transaction is its row overlaid with the update of the greatest
\* block_height on the chain, ties broken by the greatest row id, and the row
\* itself when the chain holds no update for it
C21_LatestUpdateOverlay ==
    \A to \in blocks, r \in transaction_pool :
        transaction_pool_get_for_blocks(locked_block, to.id, r.transaction_id).recs
            = IF UpdatesOnChain(locked_block, to.id, r.transaction_id) = {}
              THEN {r}
              ELSE {try_convert(r, GreatestUpdate(
                        UpdatesOnChain(locked_block, to.id, r.transaction_id)))}

\* the effective records of a pool row read from LockedBlock to the tip `to`
EffectiveRecords(to, r) ==
    transaction_pool_get_for_blocks(locked_block, to.id, r.transaction_id).recs
\* the state updates of a row attached to state-changing blocks on the
\* parent chain of `to`
OwnForkUpdates(to, r) ==
    {u \in pool_state_updates :
        /\ u.transaction_id = r.transaction_id
        /\ u.block_id \in AncestorIds(to.id)
        /\ command_count(blocks_get(u.block_id)) > 0}

\* C22: the effective record read for a tip is the row itself or the row
\* overlaid with an update attached to a block on the parent chain of that
\* tip; an update attached to a block of another fork never shows up in it
C22_ForkIsolation ==
    \A to \in blocks, r \in transaction_pool :
        EffectiveRecords(to, r)
            \subseteq IF OwnForkUpdates(to, r) = {} THEN {r}
                      ELSE {try_convert(r, u) : u \in OwnForkUpdates(to, r)}

\* two tips on different forks, each with an update of the same transaction,
\* give different effective records in one and the same store
C22_Witness ==
    \E to1 \in blocks, to2 \in blocks, r \in transaction_pool :
        /\ to1.id \notin AncestorIds(to2.id)
        /\ to2.id \notin AncestorIds(to1.id)
        /\ OwnForkUpdates(to1, r) # {}
        /\ OwnForkUpdates(to2, r) # {}
        /\ OwnForkUpdates(to1, r) \cap OwnForkUpdates(to2, r) = {}
        /\ EffectiveRecords(to1, r) \cap EffectiveRecords(to2, r) = {}

\* C23: in one store, and for one (locked, tip) pair, the overlay has one
\* outcome per pool transaction: stage, is_ready and local_decision are
\* determined, also with several updates of it in the applicable blocks
C23_OverlayDetermined ==
    \A to \in blocks, r \in transaction_pool :
        \A rec1 \in EffectiveRecords(to, r), rec2 \in EffectiveRecords(to, r) :
            /\ rec1.stage = rec2.stage
            /\ rec1.is_ready = rec2.is_ready
            /\ rec1.local_decision = rec2.local_decision

\* C24: every stored block but genesis has a stored parent and a stored
\* justify QC, and the block the QC certifies is stored and is an ancestor
\* of it
C24_NoDanglingBlock ==
    \A b \in blocks :
        ~BlockIdIsGenesis(b.id) =>
            /\ blocks_exists(b.parent)
            /\ b.justify \in quorum_certificates
            /\ blocks_exists(b.justify.block_id)
            /\ b.justify.block_id \in AncestorIds(b.parent)

\* a candidate stored together with two dummy blocks between its justify
\* block and itself
C24_Witness ==
    /\ Returned
    /\ last.persisted
    /\ Len(SynthesisedDummies) >= 2
    /\ blocks_exists(last.block.id)
    /\ ~BlockIdIsGenesis(last.block.justify.block_id)

\* C25: every stored dummy block has no commands and a stored parent
C25_DummyBlocks ==
    \A b \in blocks : b.is_dummy => command_count(b) = 0 /\ blocks_exists(b.parent)

\* the dummy blocks of the latest call are stored, one on top of the other
C25_Witness ==
    /\ Returned
    /\ last.persisted
    /\ Len(SynthesisedDummies) >= 2
    /\ \A i \in 1 .. Len(SynthesisedDummies) :
          /\ SynthesisedDummies[i] \in blocks
          /\ SynthesisedDummies[i].is_dummy
    /\ SynthesisedDummies[2].parent = SynthesisedDummies[1].id

\* C26: every stored QC carries the height of the stored block it certifies;
\* a candidate whose justify carries another height than the stored justify
\* block has is rejected with JustifyBlockInvalid and its QC is not saved
C26_QcHeight ==
    /\ \A qc \in quorum_certificates :
          blocks_exists(qc.block_id) /\ blocks_get(qc.block_id).height = qc.block_height
    /\ (/\ Returned
        /\ last.validated.kind # "None"
        /\ \E b \in BlocksBefore :
              b.id = last.block.justify.block_id /\ b.height # last.block.justify.block_height)
            => /\ last.validated.error = "JustifyBlockInvalid"
               /\ last.block.justify \notin quorum_certificates
               /\ StoreUnchanged

\* a candidate whose justify names a stored block with a wrong height
C26_Witness ==
    /\ Returned
    /\ last.validated.error = "JustifyBlockInvalid"
    /\ blocks_exists(last.block.justify.block_id)
    /\ blocks_get(last.block.justify.block_id).height # last.block.justify.block_height
    /\ last.block.justify \notin quorum_certificates

\* C27: a validated candidate whose parent is genesis and whose justify is
\* the genesis QC, and that is neither processed nor rejected for its justify,
\* is a ValidBlock without dummy blocks, whatever its height and whether or
\* not it extends the LockedBlock
C27_GenesisShortCircuit ==
    (/\ Returned
     /\ last.validated.kind # "None"
     /\ BlockIdIsGenesis(last.block.parent)
     /\ QcIsGenesis(last.block.justify)
     /\ last.validated.error
          \notin {"BlockAlreadyProcessed", "JustifyBlockNotFound", "JustifyBlockInvalid"})
        => last.validated = Valid(last.block, <<>>)

\* a candidate on genesis accepted while the LockedBlock is another block,
\* which its parent chain does not contain
C27_Witness ==
    /\ Accepted
    /\ BlockIdIsGenesis(last.block.parent)
    /\ QcIsGenesis(last.block.justify)
    /\ last.validated.dummy_blocks = <<>>
    /\ ~BlockIdIsGenesis(last.locked_before)
    /\ ~ExtendsLockedBlock

\* two calls that carried the same block, both had passed the epoch check
\* before either ran its write transaction, and both have returned
Overlapped(i, j) ==
    /\ i # j
    /\ inflight[i].pc = "returned"
    /\ inflight[j].pc = "returned"
    /\ inflight[i].overlapped
    /\ inflight[j].overlapped
    /\ inflight[i].block.id = inflight[j].block.id

\* C28: of two interleaved handle() calls with the same block at most one
\* persists it and goes on to the pacemaker and the voting step; when one
\* does, the other returns Ok, has changed nothing in the store and has
\* called neither
C28_SerialisedWrites ==
    \A i \in Invocations, j \in Invocations :
        Overlapped(i, j) =>
            /\ ~(inflight[i].persisted /\ inflight[j].persisted)
            /\ inflight[i].persisted =>
                  /\ inflight[i].events = PostCommitCalls(inflight[i].block, high_qc)
                  /\ inflight[j].result = "Ok"
                  /\ inflight[j].events = NoEvents
                  /\ ~inflight[j].changed
                  /\ Cardinality({b \in blocks : b.id = inflight[i].block.id}) = 1

\* two interleaved calls with the same valid block, one of which persisted it
C28_Witness ==
    \E i \in Invocations, j \in Invocations :
        /\ Overlapped(i, j)
        /\ inflight[i].persisted
        /\ inflight[i].changed
        /\ inflight[j].result = "Ok"
        /\ ~inflight[j].persisted

\* block ids a caller can pass: those of the stored blocks and one of no block
BlockIdArgs == {b.id : b \in blocks} \cup {UnknownId}

\* the result of a walk follows parent links from end_block, and every id of
\* it is end_block or an ancestor of it
ParentLinks == {<<b.id, b.parent>> : b \in blocks}
OnParentChain(ids, end_block, ancestors, links) ==
    /\ {ids[i] : i \in 1 .. Len(ids)} \subseteq ancestors
    /\ Len(ids) > 0 => ids[1] = end_block
    /\ {<<ids[i], ids[i + 1]>> : i \in 1 .. Len(ids) - 1} \subseteq links

\* C29: get_block_ids_between returns ids on the parent chain of end_block in
\* walk order and never more than 1000 of them; when start_block is an
\* ancestor of end_block, end_block is first, start_block is last and
\* appears once
C29_BlockIdsBetween ==
    \A start_block \in BlockIdArgs, end_block \in BlockIdArgs :
        LET ids == get_block_ids_between(start_block, end_block)
        IN  /\ Len(ids) <= WalkLimit
            /\ OnParentChain(ids, end_block, AncestorIds(end_block), ParentLinks)
            /\ start_block \in AncestorIds(end_block) =>
                  /\ Len(ids) > 0
                  /\ ids[1] = end_block
                  /\ ids[Len(ids)] = start_block
                  /\ \A i \in 1 .. Len(ids) - 1 : ids[i] # start_block

\* a walk of three blocks down to an ancestor, and a walk from a block whose
\* chain does not hold start_block that takes the whole limit
C29_Witness ==
    /\ \E start_block \in BlockIdArgs, end_block \in BlockIdArgs :
          /\ start_block \in AncestorIds(end_block)
          /\ Len(get_block_ids_between(start_block, end_block)) >= 3
    /\ \E start_block \in BlockIdArgs, end_block \in BlockIdArgs :
          /\ blocks_exists(start_block)
          /\ start_block \notin AncestorIds(end_block)
          /\ Len(get_block_ids_between(start_block, end_block)) = WalkLimit

changes_state(id) == ~blocks_get(id).is_dummy /\ command_count(blocks_get(id)) > 0

\* C30: get_block_ids_that_change_state_between is get_block_ids_between
\* without the dummy blocks and the blocks without commands, in the same
\* order
C30_FilteredWalk ==
    \A start_block \in BlockIdArgs, end_block \in BlockIdArgs :
        get_block_ids_that_change_state_between(start_block, end_block)
            = SelectSeq(get_block_ids_between(start_block, end_block), changes_state)

\* a walk that passes a block without commands before a block that changes
\* state
C30_Witness ==
    \E start_block \in BlockIdArgs, end_block \in BlockIdArgs :
        LET ids == get_block_ids_between(start_block, end_block)
            changing == get_block_ids_that_change_state_between(start_block, end_block)
        IN  /\ Len(changing) > 0
            /\ ids[1] # changing[1]
            /\ \E i \in 1 .. Len(ids) : blocks_get(ids[i]).is_dummy

\* the ids reached from the ids of S by at most n parent links
RECURSIVE ParentClosure(_, _)
ParentClosure(S, n) ==
    IF n = 0 THEN S
    ELSE ParentClosure(S \cup {l[2] : l \in {k \in ParentLinks : k[1] \in S}}, n - 1)

ReachableByParentLinks(id) == ParentClosure({id}, Cardinality(blocks))

\* C31: blocks_is_ancestor fails with QueryError when either block is not
\* stored, and otherwise returns true exactly when ancestor is reached from
\* descendant by zero or more parent links
C31_IsAncestor ==
    \A descendant \in BlockIdArgs, ancestor \in BlockIdArgs :
        LET r == blocks_is_ancestor(descendant, ancestor)
        IN  IF blocks_exists(descendant) /\ blocks_exists(ancestor)
            THEN /\ ~r.err
                 /\ r.value <=> ancestor \in ReachableByParentLinks(descendant)
                 /\ descendant = ancestor => r.value
            ELSE r.err

\* a store with a proper ancestor above genesis, and two blocks of different
\* forks
C31_Witness ==
    /\ \E descendant \in BlockIdArgs, ancestor \in BlockIdArgs :
          /\ ancestor # GenesisId
          /\ ancestor # descendant
          /\ ~blocks_is_ancestor(descendant, ancestor).err
          /\ blocks_is_ancestor(descendant, ancestor).value
    /\ \E descendant \in BlockIdArgs, ancestor \in BlockIdArgs :
          /\ ~blocks_is_ancestor(descendant, ancestor).err
          /\ ~blocks_is_ancestor(descendant, ancestor).value
          /\ ~blocks_is_ancestor(ancestor, descendant).value

\* the locks of the list of one substate
LocksOf(list) == {list[i] : i \in 1 .. Len(list)}

\* the locks recorded by the state-changing blocks among block_id and its
\* ancestors
ChainLocks(block_id) ==
    {l \in substate_locks :
        /\ l.block_id \in ReachableByParentLinks(block_id)
        /\ changes_state(l.block_id)}

RECURSIVE ChainAbove(_, _)
ChainAbove(id, stop) ==
    IF ~blocks_exists(id) \/ id = stop THEN {}
    ELSE IF blocks_get(id).parent = id THEN {id}
    ELSE {id} \cup ChainAbove(blocks_get(id).parent, stop)

\* C33: pending_state_tree_diffs_get_all_up_to_commit_block returns the
\* pending diffs of exactly the blocks on the parent chain of block_id above
\* the commit block, each once, in ascending order of block height, and
\* nothing when block_id is the commit block
C33_DiffsUpToCommit ==
    \A block_id \in BlockIdArgs :
        \A diffs \in pending_state_tree_diffs_get_all_up_to_commit_block(block_id) :
            /\ {diffs[i] : i \in 1 .. Len(diffs)}
                  = {d \in pending_state_tree_diffs :
                        d.block_id \in ChainAbove(block_id, get_commit_block_id)}
            /\ \A i, j \in 1 .. Len(diffs) : i # j => diffs[i] # diffs[j]
            /\ \A i \in 1 .. Len(diffs) - 1 :
                  diffs[i].block_height <= diffs[i + 1].block_height
            /\ block_id = get_commit_block_id => diffs = <<>>

\* the commit block is above genesis, two blocks above it have a pending
\* diff, and the read from the commit block itself gives nothing
C33_Witness ==
    /\ get_commit_block_id # GenesisId
    /\ pending_state_tree_diffs_get_all_up_to_commit_block(get_commit_block_id) = {<<>>}
    /\ \E block_id \in BlockIdArgs :
          /\ get_commit_block_id \in ReachableByParentLinks(block_id)
          /\ \E diffs \in pending_state_tree_diffs_get_all_up_to_commit_block(block_id) :
                Len(diffs) >= 2

\* the transactions the call has given local decision Abort for the candidate
AbortedByTimeout ==
    {u.transaction_id : u \in {v \in pool_state_updates \ last.before[7] :
                                  /\ v.block_id = last.block.id
                                  /\ v.local_decision = "Abort"}}

\* the stages the pool can read for a transaction on the chain that ends at
\* the parent of the candidate
StagesOnParentChain(tx_id) ==
    {r.stage : r \in transaction_pool_get_for_blocks(locked_block, last.block.parent,
                                                     tx_id).recs}

\* C34: a call that has persisted its candidate gave local decision Abort
\* only to transactions that are at stage New or Prepared on the parent chain
\* of the candidate
C34_JudgedOnChain ==
    (last.state = "voting" /\ last.persisted) =>
        \A t \in AbortedByTimeout :
            StagesOnParentChain(t) \cap {"New", "Prepared"} # {}

\* C35: when a call has persisted its candidate, every transaction it gave
\* local decision Abort reads with local decision Abort from the pool for the
\* chain that ends at the candidate
C35_AbortVisible ==
    (last.state = "voting" /\ last.persisted) =>
        \A t \in AbortedByTimeout :
            \A r \in transaction_pool_get_for_blocks(locked_block, last.block.id, t).recs :
                r.local_decision = "Abort"

\* every transaction of the candidate's commands has a TransactionRecord
CommandsStored ==
    \A i \in 1 .. Len(last.block.commands) : transactions_exists(last.block.commands[i])

\* C36: a candidate that passes every validation rule and whose transactions
\* all have a TransactionRecord is persisted, and handle() has not failed
\* when it hands the block to the voting step
C36_ReconciliationNeverFails ==
    (Accepted /\ CommandsStored) =>
        /\ last.persisted
        /\ last.error # "StorageError"

\* C37: every stored block other than genesis is higher than its parent
C37_HeightIncreases ==
    \A b \in blocks :
        (b.id # GenesisId /\ blocks_exists(b.parent)) => blocks_get(b.parent).height < b.height

\* C38: validate_local_proposed_block ends with a ValidBlock or with an
\* error, and a ValidBlock holds at most height - justify height + 1
\* synthesised dummy blocks
C38_ValidationTerminates ==
    Returned =>
        /\ last.validated.kind # "Panic"
        /\ Accepted =>
              Len(SynthesisedDummies)
                  <= last.block.height - last.block.justify.block_height + 1

\* C39: get_block_ids_between returns no block id twice
C39_NoRepeatedId ==
    \A start_block \in BlockIdArgs, end_block \in BlockIdArgs :
        LET ids == get_block_ids_between(start_block, end_block)
        IN  Cardinality({ids[i] : i \in 1 .. Len(ids)}) = Len(ids)

====
